---- MODULE Spec2Model ----
(***************************************************************************)
(* The Streamlit dashboard of src/App/app.py as a state machine.           *)
(*                                                                         *)
(* One script run is: load_data() (lines 19-35), the header with the logo  *)
(* and the sidebar navigation (lines 37-54), then the selected page        *)
(* (lines 56-152).  A change of a widget's value by the user starts the    *)
(* next script run from the top.                                           *)
(***************************************************************************)
EXTENDS Integers, Sequences, FiniteSets, TLC

\* ------------------------------------------------------------------ bounds

\* Longest forecast CSV (data rows) the model loads.
MaxForecastRows == 2

\* Longest ROI CSV (data rows) the model loads.
MaxRoiRows == 2

\* ----------------------------------------------------------- input domains

\* The data rows a forecast CSV is made of; Date is the text d1/d2/yyyy.
ForecastCsvRows ==
    { [Date |-> <<5, 3, 2024>>, Base_Forecast |-> 100, Best_Case |-> 120,
       Worst_Case |-> 80, Upper_CI |-> 110, Lower_CI |-> 90],
      [Date |-> <<5, 4, 2024>>, Base_Forecast |-> 105, Best_Case |-> 130,
       Worst_Case |-> 70, Upper_CI |-> 118, Lower_CI |-> 88] }

\* A cell the CSV leaves empty: read_csv makes it NaN.
Missing == "<NaN>"

\* The data rows an ROI CSV is made of: a tie on ROI, a duplicated Segment,
\* a zero Investment and an empty Segment cell are all among them.
RoiCsvRows ==
    { [Segment |-> "Champions", Investment |-> 2, Projected_Gain |-> 5,
       ROI |-> 3, BreakEven_Revenue |-> 2],
      [Segment |-> "Lost", Investment |-> 0, Projected_Gain |-> 4,
       ROI |-> 3, BreakEven_Revenue |-> 0],
      [Segment |-> "Champions", Investment |-> 4, Projected_Gain |-> 2,
       ROI |-> 1, BreakEven_Revenue |-> 4],
      [Segment |-> Missing, Investment |-> 1, Projected_Gain |-> 1,
       ROI |-> 2, BreakEven_Revenue |-> 1] }

\* The segment summary CSV's data rows (one sample file).
SegmentCsvRows ==
    << [Cluster |-> 0, Decision_Action |-> "Retain", Customer_Count |-> 10,
        Avg_Recency |-> 12, Avg_Frequency |-> 4, Avg_Monetary |-> 300],
       [Cluster |-> 1, Decision_Action |-> "Win back", Customer_Count |-> 7,
        Avg_Recency |-> 90, Avg_Frequency |-> 1, Avg_Monetary |-> 40] >>

SeqsUpTo(S, n) == UNION { [1..k -> S] : k \in 0..n }

\* What can be wrong with a CSV on disk.
CsvFaults == {"missing", "unreadable"}

\* What can be wrong with the forecast CSV's Date column once it is read.
DateFaults == {"nodate", "baddate"}

CsvFile(status, rows) == [status |-> status, rows |-> rows]

ForecastFiles ==
    { CsvFile("ok", r) : r \in SeqsUpTo(ForecastCsvRows, MaxForecastRows) }
        \cup { CsvFile(s, << >>) : s \in CsvFaults \cup DateFaults }

RoiFiles ==
    { CsvFile("ok", r) : r \in SeqsUpTo(RoiCsvRows, MaxRoiRows) }
        \cup { CsvFile(s, << >>) : s \in CsvFaults }

SegmentFiles ==
    { CsvFile("ok", SegmentCsvRows) } \cup { CsvFile(s, << >>) : s \in CsvFaults }

\* The logo on disk: readable, absent, or present and not an image.
LogoFiles == {"ok", "missing", "corrupt"}

\* ---------------------------------------------------------------- widgets

Pages == <<"Executive Summary", "Customer Segmentation",
           "Revenue Forecasting", "ROI Analysis">>

ScenarioOptions == <<"Base_Forecast", "Best_Case", "Worst_Case">>

ScenarioDefault == <<"Base_Forecast", "Best_Case", "Worst_Case">>

Range(s) == { s[i] : i \in 1..Len(s) }

\* Every value the multiselect can hold: the options picked, in the order
\* they were picked, none twice.
Selections(options) ==
    { s \in SeqsUpTo(Range(options), Len(options)) :
        \A i, j \in 1..Len(s) : i # j => s[i] # s[j] }

\* A selectbox that has not been instantiated in this session yet.
NoWidgetValue == "<unset>"

\* What a selectbox with no options returns.
None == "None"

VARIABLES
    forecast_file,      \* revenue_forecast_scenarios.csv on disk
    roi_file,           \* roi_simulation_results.csv on disk
    segment_file,       \* segment_decision_summary.csv on disk
    logo_file,          \* Mu_sigma_logo.jpg on disk
    cache,              \* st.cache_data's entry for load_data(): << >> or <<tables>>
    loaded,             \* forecast_df, roi_df, segment_df are bound in this run
    forecast_df,
    roi_df,
    segment_df,
    pc,                 \* where the script run is
    error,              \* the exception that ended the run, or "none"
    page,               \* the sidebar radio's value
    scenarios,          \* the multiselect's value
    selected_segment,   \* the selectbox's value
    rendered,           \* the elements this run has put on the page
    tiles,              \* the metric tiles of this run, in order
    fig_seg,            \* the rows behind the segment charts of this run
    fig_roi,            \* the rows behind the ROI bar chart of this run
    fig,                \* the traces of the forecast figure of this run
    seg_data            \* the deep dive's row: << >> or <<row>>

files == <<forecast_file, roi_file, segment_file, logo_file>>
tables == <<loaded, forecast_df, roi_df, segment_df>>
widgets == <<page, scenarios, selected_segment>>
outputs == <<rendered, tiles, fig_seg, fig_roi, fig, seg_data>>
vars == <<files, cache, tables, pc, error, widgets, outputs>>

\* ------------------------------------------------------------ data frames

\* pd.read_csv: the CSV's rows under a RangeIndex 0, 1, 2, ...
ReadForecastCsv(file) ==
    [i \in 1..Len(file.rows) |->
        [index |-> i - 1, Date |-> file.rows[i].Date,
         Base_Forecast |-> file.rows[i].Base_Forecast,
         Best_Case |-> file.rows[i].Best_Case,
         Worst_Case |-> file.rows[i].Worst_Case,
         Upper_CI |-> file.rows[i].Upper_CI,
         Lower_CI |-> file.rows[i].Lower_CI]]

ReadRoiCsv(file) ==
    [i \in 1..Len(file.rows) |->
        [index |-> i - 1, Segment |-> file.rows[i].Segment,
         Investment |-> file.rows[i].Investment,
         Projected_Gain |-> file.rows[i].Projected_Gain,
         ROI |-> file.rows[i].ROI,
         BreakEven_Revenue |-> file.rows[i].BreakEven_Revenue]]

ReadSegmentCsv(file) ==
    [i \in 1..Len(file.rows) |->
        [index |-> i - 1, Cluster |-> file.rows[i].Cluster,
         Decision_Action |-> file.rows[i].Decision_Action,
         Customer_Count |-> file.rows[i].Customer_Count,
         Avg_Recency |-> file.rows[i].Avg_Recency,
         Avg_Frequency |-> file.rows[i].Avg_Frequency,
         Avg_Monetary |-> file.rows[i].Avg_Monetary]]

\* The exception pd.read_csv raises on a file, or "none".
ReadCsvError(file) ==
    CASE file.status = "missing" -> "FileNotFoundError"
      [] file.status = "unreadable" -> "PermissionError"
      [] OTHER -> "none"

\* pd.to_datetime(text, dayfirst=True) on the text d1/d2/yyyy.
ToDatetimeDayFirst(text) == [day |-> text[1], month |-> text[2], year |-> text[3]]

\* forecast_df['Date'] = pd.to_datetime(forecast_df['Date'], dayfirst=True)
ParseDateColumn(df) ==
    [i \in 1..Len(df) |-> [df[i] EXCEPT !.Date = ToDatetimeDayFirst(@)]]

\* The exception the Date preprocessing raises, or "none".
ParseDateError(file) ==
    CASE file.status = "nodate" -> "KeyError"
      [] file.status = "baddate" -> "ValueError"
      [] OTHER -> "none"

\* The exception load_data() ends with, or "none": the three reads in the
\* order of the code, then the preprocessing.
LoadDataError(ff, rf, sf) ==
    IF ReadCsvError(ff) # "none" THEN ReadCsvError(ff)
    ELSE IF ReadCsvError(rf) # "none" THEN ReadCsvError(rf)
    ELSE IF ReadCsvError(sf) # "none" THEN ReadCsvError(sf)
    ELSE ParseDateError(ff)

\* What load_data() returns when nothing raises.
LoadDataResult(ff, rf, sf) ==
    [forecast |-> ParseDateColumn(ReadForecastCsv(ff)),
     roi |-> ReadRoiCsv(rf),
     segment |-> ReadSegmentCsv(sf)]

\* The except clause around load_data(): `except FileNotFoundError`.
LoadHandlerCatches(exc) == exc = "FileNotFoundError"

\* df[column] as a list.
Column(df, column) == [i \in 1..Len(df) |-> df[i][column]]

\* list[::-1]
Reverse(s) == [i \in 1..Len(s) |-> s[Len(s) + 1 - i]]

RECURSIVE SumSeq(_)
SumSeq(s) == IF s = << >> THEN 0 ELSE s[1] + SumSeq(Tail(s))

\* ---------------------------------------------------------------- numbers

\* A float: a finite ratio, or one of IEEE 754's inf and nan.
Finite(n, d) == [kind |-> "finite", num |-> n, den |-> d]
NaN == [kind |-> "nan", num |-> 0, den |-> 1]
Inf == [kind |-> "inf", num |-> 0, den |-> 1]

\* Series.sum(): 0 on an empty column.
ColumnSum(df, column) == Finite(SumSeq(Column(df, column)), 1)

\* Series.mean(): the sum over the count, and nan on an empty column.
ColumnMean(df, column) ==
    IF Len(df) = 0 THEN NaN ELSE Finite(SumSeq(Column(df, column)), Len(df))

\* a / b on the numpy scalars a row holds: a zero divisor raises nothing,
\* it gives inf (nan for 0 / 0) under a RuntimeWarning. Values are >= 0.
TrueDivide(a, b) ==
    IF b # 0 THEN Finite(a, b) ELSE IF a = 0 THEN NaN ELSE Inf

RECURSIVE Pow10(_)
Pow10(k) == IF k = 0 THEN 1 ELSE 10 * Pow10(k - 1)

\* n / d to the nearest integer, a tie to the even one (n >= 0, d > 0).
RoundHalfEven(n, d) ==
    LET q == n \div d
        r == n % d
    IN  IF 2 * r < d THEN q
        ELSE IF 2 * r > d THEN q + 1
        ELSE IF q % 2 = 0 THEN q ELSE q + 1

\* f"{value:,.<decimals>f}": the digits shown are scaled / 10^decimals; inf
\* and nan are shown as the words "inf" and "nan".
Format(value, decimals) ==
    IF value.kind = "finite"
    THEN [text |-> "number",
          scaled |-> RoundHalfEven(value.num * Pow10(decimals), value.den),
          decimals |-> decimals]
    ELSE [text |-> value.kind, scaled |-> 0, decimals |-> decimals]

\* col.metric(label, text)
Metric(label, shown) == [label |-> label, shown |-> shown]

\* ----------------------------------------------------------------- charts

\* A permutation of the rows of df.
RowPermutations(df) ==
    { [i \in 1..Len(df) |-> df[p[i]]] :
        p \in { q \in [1..Len(df) -> 1..Len(df)] :
                  \A i, j \in 1..Len(df) : i # j => q[i] # q[j] } }

\* sort_values with ascending left at its default, True.
SortValuesROIAscending(df) ==
    { s \in RowPermutations(df) :
        \A i \in 1..Len(s) - 1 : s[i].ROI <= s[i + 1].ROI }

\* What roi_df.sort_values('ROI', ascending=False) can return: the rows by
\* ROI, largest first. kind is left at its default, 'quicksort', which does
\* not keep rows of equal ROI in their order, so every order of them is a
\* possible result.
SortValuesROI(df) ==
    { s \in RowPermutations(df) :
        \A i \in 1..Len(s) - 1 : s[i].ROI >= s[i + 1].ROI }

\* sort_values with inplace=True: the frame itself is reordered.
AfterSortValuesInplace(df, sorted) == sorted

\* The frame sort_values was called on, once it has returned `sorted`:
\* inplace is left at False, so the result is a new frame.
AfterSortValues(df, sorted) == df

\* The band's y with Lower_CI left in chronological order.
ConfidenceBandYNotReversed(df) == Column(df, "Upper_CI") \o Column(df, "Lower_CI")

\* The x and y of the confidence-band trace.
ConfidenceBandX(df) == Column(df, "Date") \o Reverse(Column(df, "Date"))
ConfidenceBandY(df) == Column(df, "Upper_CI") \o Reverse(Column(df, "Lower_CI"))

\* The colours with two of them exchanged.
colorsExchanged ==
    [Base_Forecast |-> "#1f77b4", Best_Case |-> "#d62728", Worst_Case |-> "#2ca02c"]

\* colors = {'Base_Forecast': '#1f77b4', 'Best_Case': '#2ca02c', ...}
colors ==
    [Base_Forecast |-> "#1f77b4", Best_Case |-> "#2ca02c", Worst_Case |-> "#d62728"]

\* go.Scatter(x=forecast_df['Date'], y=forecast_df[scenario], name=scenario,
\*            line=dict(color=colors[scenario], width=3))
ScenarioTrace(df, scenario) ==
    [name |-> scenario, x |-> Column(df, "Date"), y |-> Column(df, scenario),
     color |-> colors[scenario]]

BandTrace(df) ==
    [name |-> "95% Confidence Interval", x |-> ConfidenceBandX(df),
     y |-> ConfidenceBandY(df), color |-> "rgba(255,255,255,0)"]

\* Series.unique(): the distinct values, in order of first appearance (NaN
\* is one of them, once).
RECURSIVE Unique(_)
Unique(s) ==
    IF s = << >> THEN << >>
    ELSE LET front == Unique(SubSeq(s, 1, Len(s) - 1))
             last == s[Len(s)]
         IN  IF last \in Range(front) THEN front ELSE Append(front, last)

\* The selectbox's options as a fixed list of segment names.
SelectboxOptionsFixed(df) == <<"Champions", "Lost">>

\* The options of the deep dive's selectbox.
SelectboxOptions(df) == Unique(Column(df, "Segment"))

\* What the selectbox returns: the option the user picked, the first option
\* while the user has picked none, None when there are no options.
SelectboxValue(options, picked) ==
    IF options = << >> THEN None
    ELSE IF picked \in Range(options) THEN picked
    ELSE options[1]

\* a == b on the cells of a column: NaN equals nothing, itself included.
CellEquals(a, b) == a = b /\ a # Missing

\* roi_df[roi_df['Segment'] == selected_segment]
FilterSegment(df, name) ==
    LET Matches(row) == CellEquals(row.Segment, name) IN SelectSeq(df, Matches)

\* .iloc[0] on the filtered frame: its first row (IndexError on none, which
\* the caller tells from an empty `rows`).
Iloc0(rows) == rows[1]

\* ---------------------------------------------------------------- actions

Init ==
    /\ forecast_file \in ForecastFiles
    /\ roi_file \in RoiFiles
    /\ segment_file \in SegmentFiles
    /\ logo_file \in LogoFiles
    /\ cache = << >>
    /\ loaded = FALSE
    /\ forecast_df = << >>
    /\ roi_df = << >>
    /\ segment_df = << >>
    /\ pc = "start"
    /\ error = "none"
    /\ page = Pages[1]
    /\ scenarios = ScenarioDefault
    /\ selected_segment = NoWidgetValue
    /\ rendered = {}
    /\ tiles = << >>
    /\ fig_seg = << >>
    /\ fig_roi = << >>
    /\ fig = << >>
    /\ seg_data = << >>

\* load_data() returns: from the cache when it holds the result, else from
\* the files, and the result is cached.
LoadData ==
    /\ pc = "start"
    /\ \/ cache # << >>
       \/ LoadDataError(forecast_file, roi_file, segment_file) = "none"
    /\ LET result == IF cache # << >> THEN cache[1]
                     ELSE LoadDataResult(forecast_file, roi_file, segment_file)
       IN  /\ cache' = <<result>>
           /\ forecast_df' = result.forecast
           /\ roi_df' = result.roi
           /\ segment_df' = result.segment
    /\ loaded' = TRUE
    /\ pc' = "header"
    /\ UNCHANGED <<files, error, widgets, outputs>>

\* load_data() raises an exception the except clause catches: st.error and
\* st.stop().
LoadDataCaught ==
    /\ pc = "start"
    /\ cache = << >>
    /\ LET exc == LoadDataError(forecast_file, roi_file, segment_file)
       IN  exc # "none" /\ LoadHandlerCatches(exc)
    /\ rendered' = rendered \cup {"error"}
    /\ pc' = "stopped"
    /\ UNCHANGED <<files, cache, tables, error, widgets,
                   tiles, fig_seg, fig_roi, fig, seg_data>>

\* load_data() raises an exception the except clause does not catch: it
\* leaves the script, which ends there.
LoadDataUncaught ==
    /\ pc = "start"
    /\ cache = << >>
    /\ LET exc == LoadDataError(forecast_file, roi_file, segment_file)
       IN  /\ exc # "none" /\ ~LoadHandlerCatches(exc)
           /\ error' = exc
    /\ pc' = "crashed"
    /\ UNCHANGED <<files, cache, tables, widgets, outputs>>

\* The exception Image.open raises on the logo, or "none".
LogoError(file) ==
    CASE file = "missing" -> "FileNotFoundError"
      [] file = "corrupt" -> "UnidentifiedImageError"
      [] OTHER -> "none"

\* `except FileNotFoundError:` around the logo.
LogoHandlerCatchesNotFound(exc) == exc = "FileNotFoundError"

\* The bare `except:` around the logo.
LogoHandlerCatches(exc) == TRUE

\* The header with the logo, the title, the rule and the sidebar navigation.
Header ==
    /\ pc = "header"
    /\ LET exc == LogoError(logo_file)
       IN  IF exc = "none"
           THEN /\ rendered' = rendered \cup {"logo", "title", "navigation"}
                /\ pc' = "page"
                /\ error' = error
           ELSE IF LogoHandlerCatches(exc)
           THEN /\ rendered' = rendered \cup {"warning", "title", "navigation"}
                /\ pc' = "page"
                /\ error' = error
           ELSE /\ rendered' = rendered
                /\ pc' = "crashed"
                /\ error' = exc
    /\ UNCHANGED <<files, cache, tables, widgets,
                   tiles, fig_seg, fig_roi, fig, seg_data>>

\* PAGE 1: the four tiles, the segment pie, the ROI bars by ROI descending.
ExecutiveSummary ==
    /\ pc = "page"
    /\ page = "Executive Summary"
    /\ \E sorted \in SortValuesROI(roi_df) :
          /\ fig_roi' = sorted
          /\ roi_df' = AfterSortValues(roi_df, sorted)
    /\ tiles' =
          << Metric("Total Customers",
                    Format(ColumnSum(segment_df, "Customer_Count"), 0)),
             Metric("Projected Gain",
                    Format(ColumnSum(roi_df, "Projected_Gain"), 2)),
             Metric("Avg ROI", Format(ColumnMean(roi_df, "ROI"), 1)),
             Metric("Total Investment",
                    Format(ColumnSum(roi_df, "Investment"), 0)) >>
    /\ fig_seg' = segment_df
    /\ rendered' = rendered \cup {page}
    /\ pc' = "idle"
    /\ UNCHANGED <<files, cache, loaded, forecast_df, segment_df, error,
                   widgets, fig, seg_data>>

\* PAGE 2: the segment table and the two segment charts.
CustomerSegmentation ==
    /\ pc = "page"
    /\ page = "Customer Segmentation"
    /\ fig_seg' = segment_df
    /\ rendered' = rendered \cup {page}
    /\ pc' = "idle"
    /\ UNCHANGED <<files, cache, tables, error, widgets,
                   tiles, fig_roi, fig, seg_data>>

\* PAGE 3: the multiselect, the confidence band, then one trace for each
\* scenario of the multiselect's value. colors[scenario] raises KeyError on
\* a name that is not a key of colors.
RevenueForecasting ==
    /\ pc = "page"
    /\ page = "Revenue Forecasting"
    /\ IF \A i \in 1..Len(scenarios) : scenarios[i] \in DOMAIN colors
       THEN /\ fig' = <<BandTrace(forecast_df)>>
                        \o [i \in 1..Len(scenarios) |->
                              ScenarioTrace(forecast_df, scenarios[i])]
            /\ pc' = "idle"
            /\ error' = error
       ELSE /\ fig' = << >>
            /\ pc' = "crashed"
            /\ error' = "KeyError"
    /\ rendered' = rendered \cup {page, "multiselect"}
    /\ UNCHANGED <<files, cache, tables, widgets,
                   tiles, fig_seg, fig_roi, seg_data>>

\* PAGE 4: the grouped bars, the selectbox, the lookup of the selected
\* segment's row and its three tiles. .iloc[0] raises IndexError when no
\* row matches.
ROIAnalysis ==
    /\ pc = "page"
    /\ page = "ROI Analysis"
    /\ fig_roi' = roi_df
    /\ rendered' = rendered \cup {page, "selectbox"}
    /\ LET selected == SelectboxValue(SelectboxOptions(roi_df), selected_segment)
           rows == FilterSegment(roi_df, selected)
       IN  /\ selected_segment' = selected
           /\ IF rows = << >>
              THEN /\ seg_data' = << >>
                   /\ tiles' = << >>
                   /\ pc' = "crashed"
                   /\ error' = "IndexError"
              ELSE LET row == Iloc0(rows)
                       efficiency == TrueDivide(row.Projected_Gain, row.Investment)
                   IN  /\ seg_data' = <<row>>
                       /\ tiles' =
                            << Metric("ROI", Format(Finite(row.ROI, 1), 2)),
                               Metric("Break-Even Target",
                                      Format(Finite(row.BreakEven_Revenue, 1), 2)),
                               Metric("Efficiency Score", Format(efficiency, 1)) >>
                       /\ pc' = "idle"
                       /\ error' = error
    /\ UNCHANGED <<files, cache, tables, page, scenarios, fig_seg, fig>>

\* The script is run again from the top: its names are unbound and the
\* page is drawn anew.
Rerun ==
    /\ pc' = "start"
    /\ error' = "none"
    /\ loaded' = FALSE
    /\ forecast_df' = << >>
    /\ roi_df' = << >>
    /\ segment_df' = << >>
    /\ rendered' = {}
    /\ tiles' = << >>
    /\ fig_seg' = << >>
    /\ fig_roi' = << >>
    /\ fig' = << >>
    /\ seg_data' = << >>
    /\ UNCHANGED <<files, cache>>

\* The run is over and its widgets are on the page.
Interactive == pc \in {"idle", "crashed"}

\* The user picks another page in the sidebar radio. The widgets of the
\* page that is left are gone, and start from their defaults when next
\* drawn.
SelectPage ==
    /\ Interactive
    /\ "navigation" \in rendered
    /\ \E p \in Range(Pages) :
          /\ p # page
          /\ page' = p
    /\ scenarios' = ScenarioDefault
    /\ selected_segment' = NoWidgetValue
    /\ Rerun

\* The user changes the scenario multiselect.
SelectScenarios ==
    /\ Interactive
    /\ "multiselect" \in rendered
    /\ \E s \in Selections(ScenarioOptions) :
          /\ s # scenarios
          /\ scenarios' = s
    /\ UNCHANGED <<page, selected_segment>>
    /\ Rerun

\* The user picks another segment in the deep dive's selectbox.
SelectSegment ==
    /\ Interactive
    /\ "selectbox" \in rendered
    /\ \E s \in Range(SelectboxOptions(roi_df)) :
          /\ s # selected_segment
          /\ selected_segment' = s
    /\ UNCHANGED <<page, scenarios>>
    /\ Rerun

Next ==
    \/ LoadData
    \/ LoadDataCaught
    \/ LoadDataUncaught
    \/ Header
    \/ ExecutiveSummary
    \/ CustomerSegmentation
    \/ RevenueForecasting
    \/ ROIAnalysis
    \/ SelectPage
    \/ SelectScenarios
    \/ SelectSegment

Spec == Init /\ [][Next]_vars

\* ----------------------------------------------------------------- claims

\* The elements of the dashboard proper.
Dashboard == {"logo", "warning", "title", "navigation", "multiselect", "selectbox"}
                \cup Range(Pages)

\* The files on disk make load_data() raise.
LoadFails == LoadDataError(forecast_file, roi_file, segment_file) # "none"

\* No element of the dashboard is on the page unless the three tables are
\* bound.
NoViewWithoutTables == rendered \cap Dashboard # {} => loaded

\* C1: when loading any of the three CSVs fails, for whatever reason, the
\* run ends with the diagnostic on the page and with no element of the
\* dashboard on it, and no element of the dashboard is ever on the page
\* while the tables are not loaded.
C1_AtomicLoad ==
    /\ NoViewWithoutTables
    /\ (LoadFails /\ pc # "start") =>
          /\ pc = "stopped"
          /\ "error" \in rendered
          /\ rendered \cap Dashboard = {}

\* The forecast figure of this run is drawn.
ForecastDrawn == page = "Revenue Forecasting" /\ pc = "idle"

\* C2: the confidence band of a forecast table of n rows has 2n points;
\* point i (0 <= i < n) is (Date[i], Upper_CI[i]) and point n+i is
\* (Date[n-1-i], Lower_CI[n-1-i]).
C2_ConfidenceBand ==
    ForecastDrawn =>
        LET n == Len(forecast_df)
            band == fig[1]
        IN  /\ Len(band.x) = 2 * n
            /\ Len(band.y) = 2 * n
            /\ \A i \in 0..n - 1 :
                  /\ band.x[i + 1] = forecast_df[i + 1].Date
                  /\ band.y[i + 1] = forecast_df[i + 1].Upper_CI
                  /\ band.x[n + i + 1] = forecast_df[n - i].Date
                  /\ band.y[n + i + 1] = forecast_df[n - i].Lower_CI

\* A band is drawn over two rows that differ in Date and in Lower_CI.
C2_Witness ==
    /\ ForecastDrawn
    /\ Len(forecast_df) >= 2
    /\ forecast_df[1].Date # forecast_df[2].Date
    /\ forecast_df[1].Lower_CI # forecast_df[2].Lower_CI

\* The deep dive of this run has been reached.
DeepDiveReached == "selectbox" \in rendered

\* C3: when the selected segment's Investment is 0, the efficiency score is
\* shown as N/A: no inf or nan is shown as a metric and the view does not
\* crash.
C3_ZeroInvestmentNA ==
    (DeepDiveReached
        /\ \E i \in 1..Len(roi_df) :
              /\ roi_df[i].Segment = selected_segment
              /\ roi_df[i].Investment = 0
              /\ \A j \in 1..i - 1 : roi_df[j].Segment # selected_segment)
    => /\ pc = "idle"
       /\ Len(tiles) = 3
       /\ tiles[3].label = "Efficiency Score"
       /\ tiles[3].shown.text = "N/A"
       /\ \A k \in 1..Len(tiles) : tiles[k].shown.text \notin {"inf", "nan"}

\* C4: the lookup returns the one row whose Segment is the selected name,
\* and fails with a duplicate-key error when several rows have it.
C4_DuplicateKey ==
    DeepDiveReached =>
        LET rows == FilterSegment(roi_df, selected_segment)
        IN  /\ Len(rows) = 1 => seg_data = rows
            /\ Len(rows) > 1 =>
                  /\ seg_data = << >>
                  /\ pc = "crashed"
                  /\ error = "DuplicateKeyError"

\* The executive summary of this run is drawn.
SummaryDrawn == page = "Executive Summary" /\ pc = "idle"

\* The bar chart's rows are the table's rows, by ROI non-increasing.
SortedPermutation ==
    /\ Len(fig_roi) = Len(roi_df)
    /\ Range(fig_roi) = Range(roi_df)
    /\ \A i, j \in 1..Len(fig_roi) : i < j => fig_roi[i].ROI >= fig_roi[j].ROI

C6_AverageRoi ==
    (page = "Executive Summary" /\ pc \in {"idle", "crashed"}) =>
        /\ Len(roi_df) > 0 =>
              /\ Len(tiles) = 4
              /\ tiles[3].label = "Avg ROI"
              /\ tiles[3].shown =
                    Format(Finite(SumSeq(Column(roi_df, "ROI")), Len(roi_df)), 1)
        /\ Len(roi_df) = 0 =>
              /\ error # "none"
              /\ \A k \in 1..Len(tiles) : tiles[k].shown.text # "nan"

\* C7: once loaded, the three tables are what the loader returned, rows and
\* order, whatever pages were drawn and whatever the user selected.
C7_TablesReadOnly ==
    loaded =>
        /\ cache = <<LoadDataResult(forecast_file, roi_file, segment_file)>>
        /\ forecast_df = cache[1].forecast
        /\ roi_df = cache[1].roi
        /\ segment_df = cache[1].segment

\* A summary is drawn from loaded tables, its chart in another order than
\* the table it was sorted from.
C7_Witness ==
    /\ SummaryDrawn
    /\ loaded
    /\ Len(forecast_df) > 0
    /\ fig_roi # roi_df

\* C8: when the tables are loaded and the logo cannot be opened, the
\* warning is shown and the run goes on to the title, the navigation and
\* the selected view.
C8_LogoNonFatal ==
    (loaded /\ logo_file # "ok" /\ pc # "header") =>
        /\ {"warning", "title", "navigation"} \subseteq rendered
        /\ pc \in {"idle", "crashed"} => page \in rendered

\* A view is drawn under the warning for a logo that is no image.
C8_Witness ==
    /\ logo_file = "corrupt"
    /\ pc = "idle"
    /\ page = "ROI Analysis"
    /\ page \in rendered

\* The colour each scenario is to be drawn in: blue, green, red.
DesignatedColour ==
    [Base_Forecast |-> "#1f77b4", Best_Case |-> "#2ca02c", Worst_Case |-> "#d62728"]

\* C9: for every value of the scenario multiselect, the forecast figure
\* has, after the band, one line per selected scenario and no other, in the
\* order of the selection, each over all the dates and in its designated
\* colour, and the colour lookup does not fail.
C9_ScenarioTraces ==
    (page = "Revenue Forecasting" /\ "multiselect" \in rendered) =>
        /\ pc = "idle"
        /\ error = "none"
        /\ Len(fig) = 1 + Len(scenarios)
        /\ \A i \in 1..Len(scenarios) :
              /\ fig[i + 1].name = scenarios[i]
              /\ fig[i + 1].x = [k \in 1..Len(forecast_df) |-> forecast_df[k].Date]
              /\ fig[i + 1].y =
                    [k \in 1..Len(forecast_df) |-> forecast_df[k][scenarios[i]]]
              /\ fig[i + 1].color = DesignatedColour[scenarios[i]]

\* A figure is drawn for a selection that is neither everything nor in the
\* order of the options.
C9_Witness ==
    /\ ForecastDrawn
    /\ scenarios = <<"Worst_Case", "Base_Forecast">>
    /\ Len(forecast_df) >= 2

\* C10 (as stated): the name handed to the lookup is a Segment of the ROI
\* table, so on a table with rows the lookup finds a row; it fails only on a
\* table of no rows.
C10_LookupFinds ==
    DeepDiveReached =>
        /\ Len(roi_df) > 0 =>
              /\ \E i \in 1..Len(roi_df) : roi_df[i].Segment = selected_segment
              /\ Len(seg_data) = 1
              /\ seg_data[1].Segment = selected_segment
              /\ pc = "idle"
        /\ error = "IndexError" <=> Len(roi_df) = 0

\* C10 (amended): the name handed to the lookup is a Segment of the ROI
\* table, so on a table with rows the lookup finds a row unless the name is
\* the missing value; it fails only on a table of no rows or on the missing
\* value.
C10_LookupFindsPresent ==
    DeepDiveReached =>
        /\ Len(roi_df) > 0 =>
              /\ \E i \in 1..Len(roi_df) : roi_df[i].Segment = selected_segment
              /\ selected_segment # Missing =>
                    /\ Len(seg_data) = 1
                    /\ seg_data[1].Segment = selected_segment
                    /\ pc = "idle"
        /\ error = "IndexError" <=>
              (Len(roi_df) = 0 \/ selected_segment = Missing)

\* The deep dive shows a segment the user picked, not the first option.
C10_Witness ==
    /\ DeepDiveReached
    /\ pc = "idle"
    /\ Len(roi_df) >= 2
    /\ selected_segment # roi_df[1].Segment
    /\ roi_df[1].Segment # Missing

====
